---- MODULE Spec2Model ----
\* QQ-plotter: data ingestion (data_loader.load_data), distribution fitting with
\* an on-disk parameter cache (distribution_fitter.get_distribution) and the
\* quantile comparison (qq_plotter.qq_plot), each as a state machine.
\*
\* Floating-point numbers are fixed-point integers counting 1/Scale units
\* (1.58 is 158).  Text (file names, YAML scalars) is a sequence of
\* one-character strings, so that split, endswith, isdigit and the YAML
\* formatting and parsing are computed character by character.
EXTENDS Integers, Sequences, FiniteSets, TLC

VARIABLES
    cache,      \* fitter: params path -> file content (text) or Absent
    fitRet,     \* fitter: the last get_distribution call and its outcome
    fitted,     \* fitter (history): params path -> vector the persisting call computed
    calls,      \* fitter (history): number of get_distribution calls made so far
    dir,        \* loader: os.listdir order of the data directory, with file contents
    loadRet,    \* loader: the last load_data call (made by main) and its outcome
    qqRet       \* engine: the last qq_plot call and its outcome

vars == <<cache, fitRet, fitted, calls, dir, loadRet, qqRet>>

-----------------------------------------------------------------------------
\* Bounds of the model

MaxCalls == 2       \* get_distribution calls in one behaviour
MaxFiles == 2       \* most entries in the data directory
MaxData == 3        \* longest array handed to qq_plot

Scale == 10 * 10    \* fixed-point resolution: two decimal digits

-----------------------------------------------------------------------------
\* Numbers and text

\* an array element: a finite number v, or one of the non-finite floats
Fin(v) == [k |-> "fin", v |-> v]
Inf == [k |-> "inf", v |-> 0]
NegInf == [k |-> "-inf", v |-> 0]
NaN == [k |-> "nan", v |-> 0]

\* np.isfinite
IsFinite(x) == x.k = "fin"

\* the numbers of an all-finite array
Nums(data) == [i \in 1..Len(data) |-> data[i].v]

RECURSIVE SumSeq(_)
SumSeq(s) == IF s = <<>> THEN 0 ELSE Head(s) + SumSeq(Tail(s))

RECURSIVE SumSq(_)
SumSq(s) == IF s = <<>> THEN 0 ELSE Head(s) * Head(s) + SumSq(Tail(s))

\* floor of the square root, by bisection: lo * lo <= n < hi * hi
RECURSIVE IsqrtBetween(_, _, _)
IsqrtBetween(n, lo, hi) ==
    IF hi - lo <= 1 THEN lo
    ELSE LET mid == (lo + hi) \div 2
         IN IF mid * mid <= n THEN IsqrtBetween(n, mid, hi) ELSE IsqrtBetween(n, lo, mid)

Isqrt(n) == IsqrtBetween(n, 0, n + 1)

RECURSIVE Concat(_)
Concat(ss) == IF ss = <<>> THEN <<>> ELSE Head(ss) \o Concat(Tail(ss))

RECURSIVE SelectIdx(_, _)
\* the subsequence of s at the positions in idx, in order
SelectIdx(s, idx) ==
    IF s = <<>> THEN <<>>
    ELSE LET n == Len(s)
             front == SelectIdx(SubSeq(s, 1, n - 1), idx)
         IN IF n \in idx THEN Append(front, s[n]) ELSE front

SeqsUpTo(S, n) == UNION {[1..k -> S] : k \in 0..n}

Digits == <<"0", "1", "2", "3", "4", "5", "6", "7", "8", "9">>

AsciiDigit == {Digits[i] : i \in 1..10}

DigitValue(c) == CHOOSE d \in 0..9 : Digits[d + 1] = c

RECURSIVE IntText(_)
\* decimal text of a natural number
IntText(n) == IF n < 10 THEN <<Digits[n + 1]>>
              ELSE Append(IntText(n \div 10), Digits[(n % 10) + 1])

RECURSIVE TextInt(_)
TextInt(t) == IF t = <<>> THEN 0
              ELSE 10 * TextInt(SubSeq(t, 1, Len(t) - 1)) + DigitValue(t[Len(t)])

\* position of the first character c of a text at or after position i, 0 when
\* there is none
RECURSIVE IndexFrom(_, _, _)
IndexFrom(t, c, i) == IF i > Len(t) THEN 0
                      ELSE IF t[i] = c THEN i ELSE IndexFrom(t, c, i + 1)

FirstDot(t) == IndexFrom(t, ".", 1)

FirstNewline(t) == IndexFrom(t, "\n", 1)

-----------------------------------------------------------------------------
\* distribution_fitter.py

\* a path of the cache directory: no file, or a file holding text
Absent == [exists |-> FALSE, content |-> <<>>]
File(content) == [exists |-> TRUE, content |-> content]

\* a loaded YAML document: None (the empty document) or a list
None == [none |-> TRUE, items |-> <<>>]
List(items) == [none |-> FALSE, items |-> items]

\* None as an element of a loaded list (no parameter of a fit is negative)
NullItem == 0 - 1

\* the lookup table of get_distribution
DistTable == {"normal", "burr", "gamma"}

\* number of shape parameters of the scipy family; loc and scale follow them
NumShapes(dist_type) ==
    CASE dist_type = "normal" -> 0
      [] dist_type = "gamma" -> 1
      [] dist_type = "burr" -> 2
      [] OTHER -> 0

\* mutant of FloatText: one fractional digit only
FloatTextShort(v) ==
    IntText(v \div Scale) \o <<".">> \o <<Digits[((v % Scale) \div 10) + 1]>>

\* repr of a float, as yaml.dump writes it: 1.58, 1.5, 2.0
FloatText(v) ==
    LET f == v % Scale
        d1 == f \div 10
        d2 == f % 10
    IN IntText(v \div Scale) \o <<".">> \o
       (IF d2 = 0 THEN <<Digits[d1 + 1]>> ELSE <<Digits[d1 + 1], Digits[d2 + 1]>>)

\* the float that digits, a "." and further digits (possibly none) resolve to
TextFloat(t) ==
    LET dot == FirstDot(t)
        frac == SubSeq(t, dot + 1, Len(t))
    IN TextInt(SubSeq(t, 1, dot - 1)) * Scale +
       (IF Len(frac) = 1 THEN 10 * DigitValue(frac[1]) ELSE TextInt(frac))

\* the value a plain YAML scalar resolves to: nothing is None, digits alone are
\* an int, digits with a "." are a float
YamlScalar(t) ==
    IF t = <<>> THEN NullItem
    ELSE IF FirstDot(t) = 0 THEN TextInt(t) * Scale
    ELSE TextFloat(t)

\* yaml.dump([float(p) for p in fit_params], outfile): the text written, one
\* "- <float>" line for each parameter
YamlDump(params) ==
    Concat([i \in 1..Len(params) |-> <<"-", " ">> \o FloatText(params[i]) \o <<"\n">>])

\* the lines of a text; the last one need not end in a newline
RECURSIVE SplitLines(_)
SplitLines(text) ==
    IF text = <<>> THEN <<>>
    ELSE LET n == FirstNewline(text)
         IN IF n = 0 THEN <<text>>
            ELSE <<SubSeq(text, 1, n - 1)>> \o SplitLines(SubSeq(text, n + 1, Len(text)))

\* yaml.safe_load(file) of a block sequence, or of the beginning of one: each
\* line is "-", then a space and a scalar when there is more
YamlLoad(text) ==
    IF text = <<>> THEN None
    ELSE LET lines == SplitLines(text)
         IN List([i \in 1..Len(lines) |-> YamlScalar(SubSeq(lines[i], 3, Len(lines[i])))])

\* mean of finite data, in 1/Scale units
MeanFx(data) == (SumSeq(data) * Scale) \div Len(data)

\* standard deviation (ddof=0) of finite data, in 1/Scale units: the root of
\* mean(x^2) - mean(x)^2, rounded down once
StdFx(data) ==
    Isqrt(((Len(data) * SumSq(data) - SumSeq(data) * SumSeq(data)) * Scale * Scale)
              \div (Len(data) * Len(data)))

\* dist.fit raises ValueError on data that is not all finite
FitFails(data) == \E i \in 1..Len(data) : ~IsFinite(data[i])

\* gamma.fit(data, floc=0): the shape a is the root of
\* log(a) - digamma(a) = log(mean(x)) - mean(log(x)); the root in 1/Scale units
\* for the arrays the fitter is called with
GammaShape(data) ==
    CASE data = <<Fin(1), Fin(2)>> -> 865
      [] data = <<Fin(1), Fin(3)>> -> 363

\* burr.fit(data, floc=0) is scipy's general-purpose numerical optimiser.  Its
\* result is not computed here: a call draws it, a vector (c, d, 0, scale) or no
\* usable optimum, in which case the fit raises FitError.
NoEstimate == <<>>
BurrEstimates == {<<250, 125, 0, 150>>, <<1200, 50, 0, 175>>}

\* the fit of a burr family found no usable optimum
FitDiverges(dist_type, est) == dist_type = "burr" /\ est = NoEstimate

\* dist.fit(data, floc=0) on finite data: (loc, scale) for normal with
\* scale = sqrt(mean(x^2)), (a, loc, scale) for gamma with scale = mean(x) / a,
\* (c, d, loc, scale) for burr; loc is pinned to 0
Fit(dist_type, data, est) ==
    LET x == Nums(data)
    IN CASE dist_type = "normal" ->
              <<0, Isqrt((SumSq(x) * Scale * Scale) \div Len(x))>>
         [] dist_type = "gamma" ->
              <<GammaShape(data), 0, (MeanFx(x) * Scale) \div GammaShape(data)>>
         [] dist_type = "burr" -> est
         [] OTHER -> <<>>

\* os.path.join(dist_params_dir, f"{dist_type}_{year}_params.yaml")
ParamsPath(dist_type, year) == <<dist_type, year>>

NoDist == [family |-> "none", args |-> <<>>]

\* stats.norm(loc=0, scale=1)
DemoDist == [family |-> "normal", args |-> <<0, Scale>>]

\* mutant of IsDemo: no demo branch
IsDemoNever(dist_type) == FALSE

IsDemo(dist_type) == dist_type = "demo"

\* mutant of IsSupported: a lookup that never misses
IsSupportedAlways(dist_type) == TRUE

\* the dict lookup: a missing key raises KeyError
IsSupported(dist_type) == dist_type \in DistTable

\* os.path.exists(params_path)
Exists(c, path) == c[path].exists

\* mutant of HitParams: the parameters are fitted again when the data allow it
HitParamsRefit(file, dist_type, data) ==
    IF FitFails(data) \/ dist_type = "burr" THEN YamlLoad(file.content)
    ELSE List(Fit(dist_type, data, NoEstimate))

\* the cache-hit branch: the parameters are what the file holds
HitParams(file, dist_type, data) == YamlLoad(file.content)

\* the cache-hit branch opens the file for reading only
CacheOnHit(c, path, dist_type, data) == c

\* the file after open(params_path, "w") and the dump: when the write fails,
\* only the first io.written bytes of the text are on the disk
FileAfterWrite(params, io) ==
    LET text == YamlDump(params)
    IN IF io.fail = "write" THEN SubSeq(text, 1, io.written) ELSE text

\* dist(*fit_params): freezing takes the shapes, then optionally loc and scale;
\* it does not look at the values, a None among them included
FreezeFails(dist_type, params) ==
    \/ params.none
    \/ Len(params.items) < NumShapes(dist_type)
    \/ Len(params.items) > NumShapes(dist_type) + 2

Returned(path, dist) == [status |-> "returned", error |-> "none", path |-> path, dist |-> dist]

Raised(path, error) == [status |-> "raised", error |-> error, path |-> path, dist |-> NoDist]

\* get_distribution(data, year, dist_type, dist_params_dir): the cache after the
\* call and what the call did.  io.fail: the I/O step that raises OSError, "open"
\* (of the params file), "write" (of the dump) or "none"; est: what the
\* optimiser of a burr fit comes to.
GetDist(c, data, year, dist_type, io, est) ==
    LET path == ParamsPath(dist_type, year)
    IN IF IsDemo(dist_type) THEN [cache |-> c, out |-> Returned("demo", DemoDist)]
       ELSE IF ~IsSupported(dist_type)
       THEN [cache |-> c, out |-> Raised("none", "ValueError")]
       ELSE IF Exists(c, path)
       THEN IF io.fail = "open" THEN [cache |-> c, out |-> Raised("hit", "OSError")]
            ELSE LET fit_params == HitParams(c[path], dist_type, data)
                     after == CacheOnHit(c, path, dist_type, data)
                 IN IF FreezeFails(dist_type, fit_params)
                    THEN [cache |-> after, out |-> Raised("hit", "TypeError")]
                    ELSE [cache |-> after,
                          out |-> Returned("hit", [family |-> dist_type,
                                                  args |-> fit_params.items])]
       ELSE IF FitFails(data) THEN [cache |-> c, out |-> Raised("miss", "ValueError")]
       ELSE IF FitDiverges(dist_type, est)
       THEN [cache |-> c, out |-> Raised("miss", "FitError")]
       ELSE LET fit_params == Fit(dist_type, data, est)
                file == FileAfterWrite(fit_params, io)
            IN IF io.fail = "open" THEN [cache |-> c, out |-> Raised("miss", "OSError")]
               ELSE IF io.fail = "write"
               THEN [cache |-> [c EXCEPT ![path] = File(file)],
                     out |-> Raised("miss", "OSError")]
               ELSE [cache |-> [c EXCEPT ![path] = File(file)],
                     out |-> Returned("miss", [family |-> dist_type, args |-> fit_params])]

\* inputs of the fitter
Tags == DistTable \cup {"demo", "weibull"}
Years == {"2003"}
\* Samples: main rejects an empty one; Inf can come out of a data file
Samples == {<<Fin(1), Fin(2)>>, <<Fin(1), Fin(3)>>, <<Fin(2), Inf>>}
Paths == {ParamsPath(t, y) : t \in Tags, y \in Years}
\* a file already in the cache directory under the name of a tag that is not in
\* the lookup table (demo_2003_params.yaml, weibull_2003_params.yaml)
ForeignFile == File(YamlDump(<<Scale, 0, Scale>>))
NoFit == <<>>
NoFailure == [fail |-> "none", written |-> 0]
OpenFailure == [fail |-> "open", written |-> 0]
\* what the optimiser can come to in a call: only a burr fit on finite data,
\* made when no entry exists, runs it
Estimates(c, data, year, dist_type) ==
    IF dist_type = "burr" /\ ~Exists(c, ParamsPath(dist_type, year)) /\ ~FitFails(data)
    THEN BurrEstimates \cup {NoEstimate}
    ELSE {NoEstimate}
\* the byte counts a failed write can leave of the dump: every proper prefix
EveryCut(params) == 0..(Len(YamlDump(params)) - 1)
\* the I/O outcomes of a call.  Only a supported family reaches the file
\* system; a hit only opens the file; a miss opens and writes it once the fit
\* has succeeded, and a failed write stops at any byte.
IoOutcomes(c, data, year, dist_type, est) ==
    IF ~IsSupported(dist_type) \/ IsDemo(dist_type) THEN {NoFailure}
    ELSE IF Exists(c, ParamsPath(dist_type, year)) THEN {NoFailure, OpenFailure}
    ELSE IF FitFails(data) \/ FitDiverges(dist_type, est) THEN {NoFailure}
    ELSE LET params == Fit(dist_type, data, est)
         IN {NoFailure, OpenFailure} \cup
            {[fail |-> "write", written |-> n] : n \in EveryCut(params)}

InitFitter ==
    /\ \E foreign \in {Absent, ForeignFile} :
           cache = [p \in Paths |-> IF p[1] \in DistTable THEN Absent ELSE foreign]
    /\ fitted = [p \in Paths |-> NoFit]
    /\ calls = 0
    /\ fitRet = [status |-> "none", error |-> "none", path |-> "none", dist |-> NoDist,
                 data |-> <<>>, year |-> "none", dist_type |-> "none"]
    /\ dir = [isdir |-> FALSE, listing |-> <<>>]     \* the loader and the engine
    /\ loadRet = [status |-> "none"]                  \* stay idle
    /\ qqRet = [status |-> "none"]

\* one get_distribution call
GetDistribution ==
    /\ calls < MaxCalls
    /\ calls' = calls + 1
    /\ \E data \in Samples, year \in Years, dist_type \in Tags :
       \E est \in Estimates(cache, data, year, dist_type) :
       \E io \in IoOutcomes(cache, data, year, dist_type, est) :
       \E r \in {GetDist(cache, data, year, dist_type, io, est)} :
         /\ cache' = r.cache
         /\ fitRet' = [status |-> r.out.status, error |-> r.out.error,
                       path |-> r.out.path, dist |-> r.out.dist,
                       data |-> data, year |-> year, dist_type |-> dist_type]
         /\ fitted' = IF r.out.path = "miss" /\ r.out.status = "returned"
                      THEN [fitted EXCEPT ![ParamsPath(dist_type, year)] = r.out.dist.args]
                      ELSE fitted
         /\ UNCHANGED <<dir, loadRet, qqRet>>

NextFitter == GetDistribution

\* the fitter alone
SpecFitter == InitFitter /\ [][NextFitter]_vars

\* the params path of the last call
LastPath == ParamsPath(fitRet.dist_type, fitRet.year)

\* the step is a get_distribution call
IsCall == calls' # calls

\* one step: no entry that exists changes, and a call that finds an entry at its
\* path takes the hit path and, when it returns, returns the vector the entry holds
C1_HitStep ==
    LET path == ParamsPath(fitRet'.dist_type, fitRet'.year)
    IN /\ \A p \in Paths : cache[p].exists => cache'[p] = cache[p]
       /\ (IsCall /\ fitRet'.dist_type \in {"normal", "burr", "gamma"} /\ cache[path].exists)
              => /\ fitRet'.path = "hit"
                 /\ fitRet'.status = "returned" =>
                        fitRet'.dist = [family |-> fitRet'.dist_type,
                                        args |-> YamlLoad(cache[path].content).items]

\* C1: a call that finds an entry at its (family, year) path takes the hit path,
\* a distribution it returns is built from exactly the vector the entry holds,
\* whatever the Sample, and no call ever changes an entry that exists.
C1_CacheHitVerbatim == [][C1_HitStep]_vars

\* a hit returned the stored vector although the Sample now fits to another one
C1_Witness ==
    /\ fitRet.path = "hit"
    /\ fitRet.status = "returned"
    /\ fitRet.dist_type \in {"normal", "gamma"}
    /\ ~FitFails(fitRet.data)
    /\ Fit(fitRet.dist_type, fitRet.data, NoEstimate) # fitRet.dist.args

\* in every state: a miss that returned left an entry that loads to the vector it
\* computed, and every vector once persisted is still what its entry loads to
C2_Persisted ==
    /\ (fitRet.path = "miss" /\ fitRet.status = "returned") =>
           /\ cache[LastPath].exists
           /\ YamlLoad(cache[LastPath].content) = List(fitRet.dist.args)
           /\ fitted[LastPath] = fitRet.dist.args
    /\ \A p \in Paths : fitted[p] # NoFit =>
           /\ cache[p].exists
           /\ YamlLoad(cache[p].content) = List(fitted[p])
    /\ (fitRet.path = "hit" /\ fitRet.status = "returned" /\ fitted[LastPath] # NoFit) =>
           fitRet.dist.args = fitted[LastPath]

\* one step: a call on a path whose vector an earlier call persisted takes the
\* hit path and, when it returns, returns that vector
C2_FollowingStep ==
    LET path == ParamsPath(fitRet'.dist_type, fitRet'.year)
    IN (IsCall /\ fitRet'.dist_type \in {"normal", "burr", "gamma"} /\ fitted[path] # NoFit)
           => /\ fitRet'.path = "hit"
              /\ fitRet'.status = "returned" => fitRet'.dist.args = fitted[path]

\* C2: a call that misses and returns has fitted the parameters and persisted
\* them: the entry exists and loads to the vector it computed, element for
\* element and in order; a following call with the same (family, year) takes
\* the hit path and obtains that same vector.
C2_CacheRoundTrip == []C2_Persisted /\ [][C2_FollowingStep]_vars

\* a hit returned a vector with a fractional part that an earlier call wrote
C2_Witness ==
    /\ fitRet.path = "hit"
    /\ fitRet.status = "returned"
    /\ fitted[LastPath] # NoFit
    /\ \E i \in 1..Len(fitRet.dist.args) : fitRet.dist.args[i] % Scale # 0

\* one step: a "demo" call returns norm(0, 1) and the cache is as it was
C3_DemoStep ==
    (IsCall /\ fitRet'.dist_type = "demo") =>
        /\ fitRet'.status = "returned"
        /\ fitRet'.dist = [family |-> "normal", args |-> <<0, Scale>>]
        /\ fitRet'.path = "demo"
        /\ cache' = cache

\* C3: a "demo" call returns the standard normal distribution (location 0,
\* scale 1) for every Sample, year and cache, takes neither the hit nor the miss
\* path and leaves the cache as it was.
C3_DemoBypassesCache == [][C3_DemoStep]_vars

\* a demo call returned while a file named after the demo tag and the year exists
C3_Witness ==
    /\ fitRet.dist_type = "demo"
    /\ fitRet.status = "returned"
    /\ cache[LastPath].exists

\* one step: a call with a tag outside the four raises ValueError before any path
C7_UnknownStep ==
    (IsCall /\ fitRet'.dist_type \notin {"demo", "normal", "burr", "gamma"}) =>
        /\ fitRet'.status = "raised"
        /\ fitRet'.error = "ValueError"
        /\ fitRet'.path = "none"
        /\ cache' = cache

\* C7: a call with a tag outside demo, normal, burr, gamma raises ValueError and
\* leaves the cache as it was, even when a file named after the tag exists.
C7_UnknownTagRaises == [][C7_UnknownStep]_vars

\* an unrecognized tag raised although its params file exists
C7_Witness ==
    /\ fitRet.dist_type = "weibull"
    /\ fitRet.status = "raised"
    /\ cache[LastPath].exists

\* C10: every entry that exists at the path of a supported family holds a
\* complete vector: it loads to a list of as many floats as the family has
\* parameters, none of them None, and its text is the whole dump of that list.
C10_EntriesComplete ==
    \A p \in Paths : (p[1] \in {"normal", "burr", "gamma"} /\ cache[p].exists) =>
        LET stored == YamlLoad(cache[p].content)
        IN /\ ~stored.none
           /\ Len(stored.items) = NumShapes(p[1]) + 2
           /\ \A i \in 1..Len(stored.items) : stored.items[i] # NullItem
           /\ cache[p].content = YamlDump(stored.items)

-----------------------------------------------------------------------------
\* data_loader.py

\* str.isdigit() is true of the ASCII digits and of other Unicode digits as
\* well; "sup3" stands for the one character SUPERSCRIPT THREE
OtherDigit == {"sup3"}

\* file_year.isdigit()
IsDigitStr(t) == t # <<>> /\ \A i \in 1..Len(t) : t[i] \in AsciiDigit \cup OtherDigit

\* filename.endswith(".txt")
EndsWithTxt(name) ==
    Len(name) >= Len(<<".", "t", "x", "t">>)
        /\ SubSeq(name, Len(name) - 3, Len(name)) = <<".", "t", "x", "t">>

\* filename.split(".")[0]
FileYear(name) ==
    IF FirstDot(name) = 0 THEN name ELSE SubSeq(name, 1, FirstDot(name) - 1)

\* the two tests of the loop that let a directory entry through
PassesNameTests(name) ==
    /\ EndsWithTxt(name)
    /\ IsDigitStr(FileYear(name))
    /\ Len(FileYear(name)) = Len(<<"Y", "Y", "Y", "Y">>)

All == <<"a", "l", "l">>

\* year == "all" or str(file_year) == str(year); year is given as str(year)
YearSelected(name, year) == year = All \/ FileYear(name) = year

\* get_column_names: the column_names list of columns.yaml
ColumnNames == <<"Year", "B">>

ColumnIndex(column) == CHOOSE i \in 1..Len(ColumnNames) : ColumnNames[i] = column

\* pd.read_csv(..., names=..., usecols=[column], na_values=missing_values).dropna():
\* the column's values in row order, without those equal to a missing value
ReadColumn(rows, column, missing_values) ==
    LET col == [i \in 1..Len(rows) |-> rows[i][ColumnIndex(column)]]
    IN SelectIdx(col, {i \in 1..Len(col) : col[i] \notin missing_values})

\* the for loop over os.listdir(folder_path): the frames appended to dfs, each
\* with the name of the file it was read from
RECURSIVE ReadFiles(_, _, _, _)
ReadFiles(listing, year, column, missing_values) ==
    IF listing = <<>> THEN <<>>
    ELSE LET f == Head(listing)
             rest == ReadFiles(Tail(listing), year, column, missing_values)
         IN IF PassesNameTests(f.name) /\ YearSelected(f.name, year)
            THEN <<[name |-> f.name,
                    df |-> ReadColumn(f.rows, column, missing_values)]>> \o rest
            ELSE rest

\* load_data(folder_path, year, column, missing_values)
LoadData(d, year, column, missing_values) ==
    IF ~d.isdir THEN [status |-> "raised", error |-> "ValueError", data |-> <<>>, dfs |-> <<>>]
    ELSE LET dfs == ReadFiles(d.listing, year, column, missing_values)
         IN IF dfs = <<>>     \* pd.concat of an empty list raises ValueError
            THEN [status |-> "raised", error |-> "ValueError", data |-> <<>>, dfs |-> dfs]
            ELSE [status |-> "returned", error |-> "none",
                  data |-> Concat([i \in 1..Len(dfs) |-> dfs[i].df]), dfs |-> dfs]

\* main after load_data returned: an empty data raises ValueError
MainAfterLoad(r) ==
    IF r.status = "raised" THEN "raised"
    ELSE IF Len(r.data) = 0 THEN "raised" ELSE "proceeds"

\* inputs of the loader
Sentinel == 9999
Name2003 == <<"2", "0", "0", "3", ".", "t", "x", "t">>
Name2005 == <<"2", "0", "0", "5", ".", "t", "x", "t">>
NameBackup == <<"2", "0", "0", "3", ".", "b", "a", "k", ".", "t", "x", "t">>
NameShort == <<"2", "0", "3", ".", "t", "x", "t">>
NameAlpha == <<"d", "a", "t", "a", ".", "t", "x", "t">>
NameCsv == <<"2", "0", "0", "3", ".", "c", "s", "v">>
NameSup == <<"2", "0", "0", "sup3", ".", "t", "x", "t">>
FileNames == {Name2003, Name2005, NameBackup, NameShort, NameAlpha, NameCsv, NameSup}

\* rows of a data file: <<Year, B>>
Row(b) == <<2003, b>>
FileRows == {<<Row(1)>>, <<Row(Sentinel)>>, <<Row(1), Row(Sentinel), Row(2)>>,
             <<Row(Sentinel), Row(Sentinel)>>, <<Row(3), Row(1)>>}
DataFiles == [name : FileNames, rows : FileRows]
Listings == {l \in SeqsUpTo(DataFiles, MaxFiles) :
                \A i, j \in 1..Len(l) : i # j => l[i].name # l[j].name}
YearSelectors == {All, <<"2", "0", "0", "3">>, <<"2", "0", "0", "5">>}
MissingSets == {{}, {Sentinel}, {Sentinel, 2}}

NotLoaded == [status |-> "none", error |-> "none", data |-> <<>>, dfs |-> <<>>,
              year |-> <<>>, missing_values |-> {}, main |-> "none"]

InitLoader ==
    /\ \/ dir = [isdir |-> FALSE, listing |-> <<>>]
       \/ \E l \in Listings : dir = [isdir |-> TRUE, listing |-> l]
    /\ loadRet = NotLoaded
    /\ cache = [p \in Paths |-> Absent]     \* the fitter and the engine stay idle
    /\ fitted = [p \in Paths |-> NoFit]
    /\ calls = 0
    /\ fitRet = [status |-> "none"]
    /\ qqRet = [status |-> "none"]

\* main, lines 78-89: the one load_data call of a run, then the emptiness test
MainLoadData ==
    /\ loadRet.status = "none"
    /\ \E year \in YearSelectors, missing_values \in MissingSets :
         LET r == LoadData(dir, year, "B", missing_values)
         IN loadRet' = [status |-> r.status, error |-> r.error, data |-> r.data,
                        dfs |-> r.dfs, year |-> year, missing_values |-> missing_values,
                        main |-> MainAfterLoad(r)]
    /\ UNCHANGED <<cache, fitRet, fitted, calls, dir, qqRet>>

NextLoader == MainLoadData

\* the loader alone
SpecLoader == InitLoader /\ [][NextLoader]_vars

\* a name that is exactly four ASCII digits followed by ".txt"
IsYYYYtxt(name) ==
    /\ Len(name) = Len(Name2003)
    /\ \A i \in 1..4 : name[i] \in {"0", "1", "2", "3", "4", "5", "6", "7", "8", "9"}
    /\ SubSeq(name, 5, Len(name)) = <<".", "t", "x", "t">>

\* C4: every file that contributes rows to the Sample is named exactly YYYY.txt.
C4_OnlyExactNamesContribute ==
    \A i \in 1..Len(loadRet.dfs) :
        loadRet.dfs[i].df # <<>> => IsYYYYtxt(loadRet.dfs[i].name)

\* C5: load_data never returns an empty Sample: it raises ValueError instead.
C5_LoadDataNeverReturnsEmpty ==
    loadRet.status = "returned" => loadRet.data # <<>>

\* the values of a file's target column that are no missing value, in row order
Cleaned(rows, missing_values) ==
    LET col == [i \in 1..Len(rows) |-> rows[i][2]]
    IN SelectIdx(col, {i \in 1..Len(col) : col[i] \notin missing_values})

\* the files of the listing named YYYY.txt whose year the selector takes
Matching(listing, year) ==
    SelectIdx(listing, {i \in 1..Len(listing) :
        /\ IsYYYYtxt(listing[i].name)
        /\ (year = All \/ SubSeq(listing[i].name, 1, 4) = year)})

\* C6: a returned Sample is the concatenation, in listing order, of the cleaned
\* target columns of exactly the files named YYYY.txt that the selector takes.
C6_SampleIsConcatOfMatching ==
    loadRet.status = "returned" =>
        LET m == Matching(dir.listing, loadRet.year)
        IN loadRet.data =
               Concat([i \in 1..Len(m) |-> Cleaned(m[i].rows, loadRet.missing_values)])

\* what the code does hold to: the Sample is the concatenation, in listing order,
\* of the cleaned columns of the files its own two name tests let through, no
\* missing value is in it, a call that reads no file raises ValueError, and main
\* never proceeds with an empty Sample
LoaderSanity ==
    /\ loadRet.status = "returned" =>
           LET own == SelectIdx(dir.listing, {i \in 1..Len(dir.listing) :
                          /\ PassesNameTests(dir.listing[i].name)
                          /\ YearSelected(dir.listing[i].name, loadRet.year)})
           IN /\ loadRet.data = Concat([i \in 1..Len(own) |->
                                    Cleaned(own[i].rows, loadRet.missing_values)])
              /\ \A i \in 1..Len(loadRet.data) :
                     loadRet.data[i] \notin loadRet.missing_values
    /\ (loadRet.status # "none" /\ loadRet.dfs = <<>>) =>
           loadRet.status = "raised" /\ loadRet.error = "ValueError"
    /\ loadRet.main = "proceeds" => loadRet.data # <<>>

-----------------------------------------------------------------------------
\* qq_plotter.py

\* sample[np.isfinite(sample)]
FiniteOnly(data) == SelectIdx(data, {i \in 1..Len(data) : IsFinite(data[i])})

\* np.sort of an all-finite array (insertion sort)
RECURSIVE Insert(_, _)
Insert(x, s) == IF s = <<>> THEN <<x>>
                ELSE IF x.v <= Head(s).v THEN <<x>> \o s
                ELSE <<Head(s)>> \o Insert(x, Tail(s))

\* mutant of NpSort: the array is left in its order
NpSortNot(s) == s

RECURSIVE NpSort(_)
NpSort(s) == IF s = <<>> THEN <<>> ELSE Insert(Head(s), NpSort(Tail(s)))

\* the ends of the probability grid, in hundredths: 0.01 and 0.99
PStart == 1
PStop == 99

\* mutant of Linspace: the grid runs over the whole of [0, 1]
LinspaceWhole(n) ==
    IF n = 1 THEN <<[num |-> 0, den |-> 100]>>
    ELSE [i \in 1..n |-> [num |-> 100 * (i - 1), den |-> 100 * (n - 1)]]

\* np.linspace(0.01, 0.99, n), each level the fraction num / den
Linspace(n) ==
    IF n = 1 THEN <<[num |-> PStart, den |-> 100]>>
    ELSE [i \in 1..n |-> [num |-> PStart * (n - 1) + (PStop - PStart) * (i - 1),
                          den |-> 100 * (n - 1)]]

\* the standard normal quantile at the knots (hundredths of probability), in
\* 1/Scale units; between two knots the quantile is interpolated linearly
ZKnots == <<1, 5, 10, 20, 30, 40, 50, 60, 70, 80, 90, 95, 99>>
ZVals == <<-233, -164, -128, -84, -52, -25, 0, 25, 52, 84, 128, 164, 233>>

StdNormalPpf(p) ==
    LET below == {j \in 1..(Len(ZKnots) - 1) : ZKnots[j] * p.den <= 100 * p.num}
        j == IF below = {} THEN 1 ELSE CHOOSE m \in below : \A o \in below : o <= m
    IN ZVals[j] + ((ZVals[j + 1] - ZVals[j]) * (100 * p.num - ZKnots[j] * p.den))
                      \div ((ZKnots[j + 1] - ZKnots[j]) * p.den)

\* dist.ppf(p) of a frozen normal distribution: loc + scale * z(p)
Ppf(dist, p) == dist.args[1] + (dist.args[2] * StdNormalPpf(p)) \div Scale

MinOf(S) == CHOOSE m \in S : \A o \in S : m <= o
MaxOf(S) == CHOOSE m \in S : \A o \in S : o <= m

\* data.mean() of a numpy array as passed in
NpMean(data) ==
    LET kinds == {data[i].k : i \in 1..Len(data)}
    IN IF kinds = {"fin"} THEN Fin(MeanFx(Nums(data)))
       ELSE IF "nan" \in kinds \/ {"inf", "-inf"} \subseteq kinds THEN NaN
       ELSE IF "inf" \in kinds THEN Inf ELSE NegInf

\* data.std() of a numpy array as passed in (ddof=0): not a number once a value
\* is not finite
NpStd(data) ==
    IF \A i \in 1..Len(data) : IsFinite(data[i])
    THEN Fin(StdFx(Nums(data)))
    ELSE NaN

\* float arithmetic with a non-finite operand; b is finite or not a number
Times(k, b) == IF b.k = "fin" THEN Fin(k * b.v) ELSE NaN
Plus(a, b) == IF a.k = "fin" /\ b.k = "fin" THEN Fin(a.v + b.v)
              ELSE IF a.k = "nan" \/ b.k = "nan" THEN NaN ELSE a
Minus(a, b) == IF a.k = "fin" /\ b.k = "fin" THEN Fin(a.v - b.v)
               ELSE IF a.k = "nan" \/ b.k = "nan" THEN NaN ELSE a

\* what main passes as data: the DataFrame load_data returned, then the numpy
\* array distribution.rvs returned
Kinds == {"DataFrame", "ndarray"}

\* variant of BandSource: the band is computed from the cleaned sample; with it
\* C9_NonFiniteExcluded holds
BandSourceCleaned(kind, data, sample) == [kind |-> "ndarray", values |-> sample]

\* the object whose mean and std give the band: data, not the cleaned sample
BandSource(kind, data, sample) == [kind |-> kind, values |-> data]

NoLine == [drawn |-> FALSE, min_val |-> 0, max_val |-> 0]
NoBand == [drawn |-> FALSE, mean |-> NaN, lower |-> NaN, upper |-> NaN]

\* how drawing the mean line and the band (lines 107-160) can end; "none": it
\* is drawn.  mean() and std() of a DataFrame are Series, and drawing with them
\* raises: plotting the ragged list [0, mean_point] is a ValueError, formatting
\* mean_point with ".2f" is a TypeError, whichever the plotting library comes
\* to first.  A mean that is not finite becomes a y tick (lines 121-125): the
\* tick formatter of the plotting library either takes it or raises on it
\* (OverflowError for an infinite tick, ValueError for one that is not a number).
BandErrors(kind, data, line) ==
    LET src == BandSource(kind, data, FiniteOnly(data))
    IN IF ~line THEN {"none"}
       ELSE IF src.kind = "DataFrame" THEN {"TypeError", "ValueError"}
       ELSE IF \A i \in 1..Len(src.values) : IsFinite(src.values[i]) THEN {"none"}
       ELSE {"none", "OverflowError", "ValueError"}

\* qq_plot(data, dist, line, n_sigma): what is plotted, and whether the call
\* returns.  err: how drawing the band ends, one of BandErrors.
QQ(kind, data, dist, line, n_sigma, err) ==
    LET sample == FiniteOnly(data)
    IN IF Len(sample) = 0
       THEN [status |-> "raised", error |-> "ValueError", sample_sorted |-> <<>>,
             levels |-> <<>>, quantiles |-> <<>>, ref |-> NoLine, band |-> NoBand]
       ELSE LET sample_sorted == NpSort(sample)
                levels == Linspace(Len(sample))
                quantiles == [i \in 1..Len(levels) |-> Ppf(dist, levels[i])]
                both == {quantiles[i] : i \in 1..Len(quantiles)}
                            \cup {sample_sorted[i].v * Scale : i \in 1..Len(sample_sorted)}
                src == BandSource(kind, data, sample)
                mean_point == NpMean(src.values)
                delta_from_mean == Times(n_sigma, NpStd(src.values))
                ref == IF line THEN [drawn |-> TRUE, min_val |-> MinOf(both),
                                     max_val |-> MaxOf(both)]
                       ELSE NoLine
            IN IF line /\ err # "none"
               THEN [status |-> "raised", error |-> err,
                     sample_sorted |-> sample_sorted, levels |-> levels,
                     quantiles |-> quantiles, ref |-> ref, band |-> NoBand]
               ELSE [status |-> "returned", error |-> "none",
                     sample_sorted |-> sample_sorted, levels |-> levels,
                     quantiles |-> quantiles, ref |-> ref,
                     band |-> IF line THEN [drawn |-> TRUE, mean |-> mean_point,
                                            lower |-> Minus(mean_point, delta_from_mean),
                                            upper |-> Plus(mean_point, delta_from_mean)]
                              ELSE NoBand]

\* inputs of the engine
DataValues == {Fin(1), Fin(2), Fin(3), NaN, Inf, NegInf}
Arrays == SeqsUpTo(DataValues, MaxData)
Dists == {DemoDist, [family |-> "normal", args |-> <<0, 2 * Scale>>]}
Sigmas == 0..2

NotPlotted == [status |-> "none", error |-> "none", sample_sorted |-> <<>>,
               levels |-> <<>>, quantiles |-> <<>>, ref |-> NoLine, band |-> NoBand]

\* the arguments of the call are drawn at the start; the engine keeps no state
InitEngine ==
    /\ \E kind \in Kinds, data \in Arrays, dist \in Dists, line \in BOOLEAN,
          n_sigma \in Sigmas :
           qqRet = [status |-> "none", kind |-> kind, data |-> data, dist |-> dist,
                    line |-> line, n_sigma |-> n_sigma, out |-> NotPlotted]
    /\ cache = [p \in Paths |-> Absent]     \* the fitter and the loader stay idle
    /\ fitted = [p \in Paths |-> NoFit]
    /\ calls = 0
    /\ fitRet = [status |-> "none"]
    /\ dir = [isdir |-> FALSE, listing |-> <<>>]
    /\ loadRet = [status |-> "none"]

QQPlot ==
    /\ qqRet.status = "none"
    /\ \E err \in BandErrors(qqRet.kind, qqRet.data, qqRet.line) :
         LET out == QQ(qqRet.kind, qqRet.data, qqRet.dist, qqRet.line, qqRet.n_sigma, err)
         IN qqRet' = [qqRet EXCEPT !.out = out, !.status = out.status]
    /\ UNCHANGED <<cache, fitRet, fitted, calls, dir, loadRet>>

NextEngine == QQPlot

\* the engine alone
SpecEngine == InitEngine /\ [][NextEngine]_vars

AllFinite(data) == \A i \in 1..Len(data) : data[i].k = "fin"

Count(s, x) == Cardinality({i \in 1..Len(s) : s[i] = x})

\* C8: for an all-finite Sample of N >= 1 values the call plots N pairs, and
\* returns when the Sample is a numpy array; the empirical components are the
\* Sample sorted non-decreasing; the i-th theoretical one is the quantile
\* function at the i-th of N levels that start at 0.01, end at 0.99, are equally
\* spaced and lie strictly inside (0, 1).
C8_QuantilePairs ==
    (qqRet.status # "none" /\ AllFinite(qqRet.data) /\ Len(qqRet.data) >= 1) =>
        LET n == Len(qqRet.data)
            emp == qqRet.out.sample_sorted
            lev == qqRet.out.levels
            theo == qqRet.out.quantiles
        IN /\ qqRet.kind = "ndarray" => qqRet.status = "returned"
           /\ Len(emp) = n /\ Len(theo) = n /\ Len(lev) = n
           /\ \A i \in 1..(n - 1) : emp[i].v <= emp[i + 1].v
           /\ \A i \in 1..n : Count(emp, qqRet.data[i]) = Count(qqRet.data, qqRet.data[i])
           /\ \A i \in 1..n : /\ 0 < lev[i].num /\ lev[i].num < lev[i].den
                              /\ theo[i] = Ppf(qqRet.dist, lev[i])
           /\ 100 * lev[1].num = lev[1].den
           /\ n > 1 => 100 * lev[n].num = 99 * lev[n].den
           /\ \A i \in 1..n : lev[i].den = lev[1].den
           /\ \A i \in 2..(n - 1) :
                  lev[i].num - lev[i - 1].num = lev[i + 1].num - lev[i].num

\* three finite values that were not in order were paired
C8_Witness ==
    /\ qqRet.status = "returned"
    /\ AllFinite(qqRet.data)
    /\ Len(qqRet.data) = 3
    /\ qqRet.data[1].v > qqRet.data[2].v
    /\ Len(qqRet.out.quantiles) = 3

\* sigma is the standard deviation (ddof=0) of the numbers x, in 1/Scale units
\* rounded down: sigma^2 <= mean(x^2) - mean(x)^2 < (sigma + 1)^2
IsStdOf(sigma, x) ==
    LET n == Len(x)
        d == (n * SumSq(x) - SumSeq(x) * SumSeq(x)) * Scale * Scale
    IN sigma * sigma * n * n <= d /\ d < (sigma + 1) * (sigma + 1) * n * n

\* C9: a call on a Sample with no finite value raises ValueError; a call on a
\* Sample with non-finite values and at least one finite value ends as the call
\* on the Sample with the non-finite values removed beforehand can end, with
\* the same pairs, reference line and band; and when that call draws a band it
\* is the mean of the finite values and that mean -/+ k*sigma of them.
C9_NonFiniteExcluded ==
    qqRet.status # "none" =>
        LET cleaned == FiniteOnly(qqRet.data)
        IN IF cleaned = <<>>
           THEN qqRet.status = "raised" /\ qqRet.out.error = "ValueError"
           ELSE ~AllFinite(qqRet.data) =>
                /\ \E err \in BandErrors(qqRet.kind, cleaned, qqRet.line) :
                       qqRet.out = QQ(qqRet.kind, cleaned, qqRet.dist, qqRet.line,
                                      qqRet.n_sigma, err)
                /\ (qqRet.line /\ qqRet.kind = "ndarray") =>
                       \E sigma \in 0..(3 * Scale) :
                           /\ IsStdOf(sigma, Nums(cleaned))
                           /\ qqRet.status = "returned"
                           /\ qqRet.out.band.mean = Fin(MeanFx(Nums(cleaned)))
                           /\ qqRet.out.band.lower =
                                  Fin(MeanFx(Nums(cleaned)) - qqRet.n_sigma * sigma)
                           /\ qqRet.out.band.upper =
                                  Fin(MeanFx(Nums(cleaned)) + qqRet.n_sigma * sigma)

\* the part of C9 the code does hold to: the pairs and the reference line are
\* those of the cleaned Sample, and the band of an all-finite numpy array is
\* its mean and its mean -/+ k*sigma
EngineSanity ==
    (qqRet.status # "none" /\ FiniteOnly(qqRet.data) # <<>>) =>
        LET c == QQ("ndarray", FiniteOnly(qqRet.data), qqRet.dist, qqRet.line,
                    qqRet.n_sigma, "none")
        IN /\ qqRet.out.sample_sorted = c.sample_sorted
           /\ qqRet.out.quantiles = c.quantiles
           /\ qqRet.out.ref = c.ref
           /\ (AllFinite(qqRet.data) /\ qqRet.kind = "ndarray") =>
                  /\ qqRet.out.band = c.band
                  /\ qqRet.line => \E sigma \in 0..(3 * Scale) :
                         /\ IsStdOf(sigma, Nums(qqRet.data))
                         /\ qqRet.out.band.lower =
                                Fin(MeanFx(Nums(qqRet.data)) - qqRet.n_sigma * sigma)

=============================================================================
